---- MODULE Spec2Model ----
(***************************************************************************)
(* CertStreamMonitor: main() loads the configuration, opens the SQLite     *)
(* store and hands print_callback to certstream.listen_for_events;         *)
(* print_callback scores every hostname of a certificate-update event      *)
(* against the search and blacklist patterns and records first-seen full   *)
(* detections in the store and on stdout.                                  *)
(*                                                                         *)
(* A hostname is a sequence of tokens, a pattern is the set of strings it  *)
(* matches, re.findall returns the matched tokens in order.                *)
(***************************************************************************)
EXTENDS Integers, Sequences, FiniteSets, Bags, TLC

\* ---------------------------------------------------------------- bounds
MaxEvents == 2
MaxRestarts == 1
MaxConcEvents == 2
MaxFaults == 1

\* ------------------------------------------------------- input universes
\* Hostnames, as the tokens the patterns can match in them.
H_full == <<"paypal", "bank">>
H_blfull == <<"paypal", "bank", "ok">>
H_rep == <<"paypal", "paypal", "ok">>
H_none == <<"example">>

Hosts == {H_full, H_blfull, H_rep, H_none}

DomainLists == {<<>>} \cup {<<h>> : h \in Hosts} \cup {<<h, g>> : h \in Hosts, g \in Hosts}

LeafCerts ==
    { [issuer |-> "CA1", subject |-> "CN1", fingerprint |-> "F1", not_before |-> 1],
      [issuer |-> "CA2", subject |-> "CN2", fingerprint |-> "F2", not_before |-> 2] }

NoCert == [issuer |-> "", subject |-> "", fingerprint |-> "", not_before |-> 0]

\* A feed message: has_domains is FALSE when data.leaf_cert.all_domains is absent.
Messages ==
    { [message_type |-> "heartbeat", has_domains |-> FALSE, all_domains |-> <<>>, leaf_cert |-> NoCert],
      [message_type |-> "other", has_domains |-> FALSE, all_domains |-> <<>>, leaf_cert |-> NoCert],
      [message_type |-> "certificate_update", has_domains |-> FALSE, all_domains |-> <<>>, leaf_cert |-> NoCert] }
    \cup
    { [message_type |-> "certificate_update", has_domains |-> TRUE, all_domains |-> d, leaf_cert |-> c] :
        d \in DomainLists, c \in LeafCerts }

\* The messages tried under threaded dispatch: at most one hostname each.
ConcMessages == {m \in Messages : Len(m.all_domains) <= 1}

\* The messages during which a store call is made to fail: at most one hostname.
FaultMessages == {m \in Messages : Len(m.all_domains) <= 1}

NoMessage == [message_type |-> "none", has_domains |-> FALSE, all_domains |-> <<>>, leaf_cert |-> NoCert]

\* --------------------------------------------------------- configuration
GlobalOrder ==
    << "DBFile", "TABLEname", "LogFile", "LogLevel", "LogType", "SearchKeywords",
       "BlacklistKeywords", "DetectionThreshold", "ACTServer", "Proxy_Host",
       "Proxy_Port", "Proxy_Username", "Proxy_Password" >>

NGlobals == Len(GlobalOrder)

\* The configuration files tried.  failAt is the number of globals ConfAnalysis
\* binds before ConfParser (or an attribute read) raises; NGlobals means the
\* configuration loads completely.
ConfFiles ==
    [ failAt : {NGlobals}, LogType : {"file"},
      BlacklistKeywords : {{}, {"ok"}}, DetectionThreshold : {1, 2} ]
    \cup
    [ failAt : {NGlobals}, LogType : {"syslog", "stdout"},
      BlacklistKeywords : {{"ok"}}, DetectionThreshold : {2} ]
    \cup
    [ failAt : 0..(NGlobals - 1), LogType : {"file"},
      BlacklistKeywords : {{"ok"}}, DetectionThreshold : {2} ]
    \cup
    [ failAt : {NGlobals}, LogType : {"file"},
      BlacklistKeywords : {{}}, DetectionThreshold : {0, -1} ]

\* Mutant: the threshold is read without being validated.
ConfParser_NoValidation(cf) == cf.failAt

\* utils.confparser.ConfParser(ConfFile): the number of globals ConfAnalysis
\* binds before an exception; a detection threshold <= 0 is rejected as an
\* invalid configuration when the file is loaded.
ConfParser(cf) == IF cf.DetectionThreshold <= 0 THEN 0 ELSE cf.failAt

SearchPattern == {"paypal", "bank"}

ConfValue(cf, name) ==
    CASE name = "LogType" -> cf.LogType
      [] name = "SearchKeywords" -> SearchPattern
      [] name = "BlacklistKeywords" -> cf.BlacklistKeywords
      [] name = "DetectionThreshold" -> cf.DetectionThreshold
      [] OTHER -> name

VARIABLES
    ConfFile,     \* the configuration file named on the command line
    G,            \* the module globals bound so far (name -> value)
    pc,           \* position of main()
    db,           \* rows of table TABLEname in the SQLite file (persistent)
    tableExists,  \* the table has been created in the SQLite file
    sqlOpen,      \* SQL holds an open connection
    stdout,       \* lines written to sys.stdout (operator-visible)
    debuglog,     \* bag of the records passed to logging.debug
    errlog,       \* records this run passed to logging.error
    storeCalls,   \* <<operation, domain>> store calls made by print_callback
    message,      \* the message of the latest print_callback invocation
    outcome,      \* how that invocation ended
    delivered,    \* number of messages handed to print_callback
    restarts,     \* number of process restarts
    faults,       \* number of store calls that failed (storage unavailable)
    wpc, wmsg, wi \* per-thread position inside print_callback (threaded dispatch)

vars == << ConfFile, G, pc, db, tableExists, sqlOpen, stdout, debuglog, errlog,
           storeCalls, message, outcome, delivered, restarts, faults, wpc, wmsg, wi >>

mainVars == << ConfFile, G, pc, tableExists, sqlOpen, restarts >>
workerVars == << wpc, wmsg, wi >>
Threads == DOMAIN wpc

Bound(name) == name \in DOMAIN G

\* --------------------------------------------------------------- helpers
Range(s) == {s[i] : i \in 1..Len(s)}

\* re.findall(pattern, host): the matches of the pattern in the host, in order.
findall(pattern, host) == SelectSeq(host, LAMBDA t : t \in pattern)

\* datetime.utcfromtimestamp(ts).isoformat()
isoformat(ts) == << "1970-01-01T00:00:0", ts >>

\* ------------------------------------------------------ utils.sqlite (store)
\* SELECT EXISTS: 1 when a row of the table has this Domain, else 0.
SQLiteVerifyEntry(rows, Domain) ==
    IF \E i \in 1..Len(rows) : rows[i].domain = Domain THEN 1 ELSE 0

\* Mutant: the table is created without the unique key on domain.
SQLiteInsert_NoUniqueKey(rows, Domain, SAN, Issuer, Fingerprint, Startime, FirstSeen) ==
    Append(rows, [domain |-> Domain, san |-> SAN, issuer |-> Issuer,
                  fingerprint |-> Fingerprint, startime |-> Startime,
                  firstseen |-> FirstSeen])

\* INSERT into a table whose domain column is the unique key: a conflicting
\* insert leaves the table as it is.
SQLiteInsert(rows, Domain, SAN, Issuer, Fingerprint, Startime, FirstSeen) ==
    IF \E i \in 1..Len(rows) : rows[i].domain = Domain
    THEN rows
    ELSE Append(rows, [domain |-> Domain, san |-> SAN, issuer |-> Issuer,
                       fingerprint |-> Fingerprint, startime |-> Startime,
                       firstseen |-> FirstSeen])

\* CREATE TABLE IF NOT EXISTS: an existing table keeps its rows.
SQLiteCreateTable(exists, rows) == IF exists THEN rows ELSE << >>

\* ------------------------------------------------- print_callback, per host
\* Mutant: the blacklist test is dropped.
is_blacklisted_Never(host) == FALSE

\* line 127-129
is_blacklisted(host) ==
    IF G["BlacklistKeywords"] # {}
    THEN findall(G["BlacklistKeywords"], host) # << >>
    ELSE FALSE

\* Mutant: every occurrence is counted (len(results) without set()).
FindNb_Occurrences(host) == Len(findall(G["SearchKeywords"], host))

\* line 130-131
FindNb(host) == Cardinality(Range(findall(G["SearchKeywords"], host)))

\* Mutant: the blacklist is tested first, whatever the match count.
Classify_BlacklistFirst(host) ==
    CASE is_blacklisted(host) -> "ignored"
      [] FindNb(host) >= G["DetectionThreshold"] -> "full"
      [] FindNb(host) > 0 /\ FindNb(host) < G["DetectionThreshold"] -> "partial"
      [] OTHER -> "none"

\* Mutant: the threshold test is strict (> instead of >=).
Classify_StrictThreshold(host) ==
    CASE is_blacklisted(host) /\ FindNb(host) > G["DetectionThreshold"] -> "ignored"
      [] FindNb(host) > G["DetectionThreshold"] -> "full"
      [] FindNb(host) > 0 /\ FindNb(host) <= G["DetectionThreshold"] -> "partial"
      [] OTHER -> "none"

\* Mutant: any match is a full detection (the threshold is not consulted).
Classify_AnyMatch(host) ==
    CASE is_blacklisted(host) /\ FindNb(host) >= G["DetectionThreshold"] -> "ignored"
      [] FindNb(host) > 0 -> "full"
      [] OTHER -> "none"

\* line 134, 139, 156: which branch the host takes
Classify(host) ==
    CASE is_blacklisted(host) /\ FindNb(host) >= G["DetectionThreshold"] -> "ignored"
      [] FindNb(host) >= G["DetectionThreshold"] -> "full"
      [] FindNb(host) > 0 /\ FindNb(host) < G["DetectionThreshold"] -> "partial"
      [] OTHER -> "none"

\* line 152: the line written to sys.stdout
StdoutLine(m, host) ==
    [host |-> host, san |-> "", issuer |-> m.leaf_cert.issuer,
     fingerprint |-> m.leaf_cert.fingerprint,
     startime |-> isoformat(m.leaf_cert.not_before)]

\* line 157: the record passed to logging.debug
DebugLine(m, host) ==
    [host |-> host, san |-> "", issuer |-> m.leaf_cert.issuer,
     fingerprint |-> m.leaf_cert.fingerprint,
     startime |-> isoformat(m.leaf_cert.not_before)]

\* line 150: the lookup, as a step on the running state st of one invocation.
\* st.fail is the ordinal of the store call that fails in this invocation (0: none).
Lookup(st, host) ==
    LET n == st.nstore + 1 IN
    IF n = st.fail
    THEN [st EXCEPT !.nstore = n, !.calls = @ \cup {<<"verify", host>>},
                    !.outcome = "StoreError"]
    ELSE [st EXCEPT !.nstore = n, !.calls = @ \cup {<<"verify", host>>},
                    !.found = SQLiteVerifyEntry(st.db, host)]

\* line 151: the insert (lines 141-148 build its arguments)
Insert(st, m, host, now) ==
    LET n == st.nstore + 1 IN
    IF n = st.fail
    THEN [st EXCEPT !.nstore = n, !.calls = @ \cup {<<"insert", host>>},
                    !.outcome = "StoreError"]
    ELSE [st EXCEPT !.nstore = n, !.calls = @ \cup {<<"insert", host>>},
                    !.db = SQLiteInsert(st.db, host, "", m.leaf_cert.subject,
                                        m.leaf_cert.fingerprint,
                                        isoformat(m.leaf_cert.not_before), now)]

\* line 152-153
Write(st, m, host) == [st EXCEPT !.stdout = Append(@, StdoutLine(m, host))]

\* Mutant: a domain that is already recorded has its row overwritten with
\* the new certificate.
Dedup_Overwrite(st, m, host, now) ==
    LET looked == Lookup(st, host) IN
    IF looked.outcome # "returned" THEN looked
    ELSE IF looked.found = 0
         THEN LET ins == Insert(looked, m, host, now) IN
              IF ins.outcome # "returned" THEN ins ELSE Write(ins, m, host)
         ELSE [looked EXCEPT !.db =
                  [i \in 1..Len(@) |->
                      IF @[i].domain = host
                      THEN [@[i] EXCEPT !.issuer = m.leaf_cert.subject,
                                        !.fingerprint = m.leaf_cert.fingerprint,
                                        !.startime = isoformat(m.leaf_cert.not_before)]
                      ELSE @[i]]]

\* Mutant: the line is written whether or not the insert raised.
Dedup_WriteAfterFailedInsert(st, m, host, now) ==
    LET looked == Lookup(st, host) IN
    IF looked.outcome # "returned" THEN looked
    ELSE IF looked.found = 0
         THEN Write(Insert(looked, m, host, now), m, host)
         ELSE looked

\* Mutant: the result of the lookup is not tested.
Dedup_NoCheck(st, m, host, now) ==
    LET looked == Lookup(st, host) IN
    IF looked.outcome # "returned" THEN looked
    ELSE LET ins == Insert(looked, m, host, now) IN
         IF ins.outcome # "returned" THEN ins ELSE Write(ins, m, host)

\* line 149-153: the dedup branch of a full detection
Dedup(st, m, host, now) ==
    LET looked == Lookup(st, host) IN
    IF looked.outcome # "returned" THEN looked
    ELSE IF looked.found = 0
         THEN LET ins == Insert(looked, m, host, now) IN
              IF ins.outcome # "returned" THEN ins ELSE Write(ins, m, host)
         ELSE looked

\* line 127-157: the body of the loop for one host
HandleHost(st, m, host, now) ==
    CASE Classify(host) = "full" -> Dedup(st, m, host, now)
      [] Classify(host) = "partial" ->
            [st EXCEPT !.debuglog = @ (+) SetToBag({DebugLine(m, host)})]
      [] OTHER -> st

\* Mutant: a blacklist-suppressed host ends the loop (break for continue).
RECURSIVE Loop_BreakOnIgnored(_, _, _, _)
Loop_BreakOnIgnored(st, m, i, now) ==
    IF i > Len(m.all_domains) \/ st.outcome # "returned" THEN st
    ELSE IF Classify(m.all_domains[i]) = "ignored" THEN st
    ELSE Loop_BreakOnIgnored(HandleHost(st, m, m.all_domains[i], now), m, i + 1, now)

\* line 126: the loop over all_domains, left by an exception
RECURSIVE Loop(_, _, _, _)
Loop(st, m, i, now) ==
    IF i > Len(m.all_domains) \/ st.outcome # "returned" THEN st
    ELSE Loop(HandleHost(st, m, m.all_domains[i], now), m, i + 1, now)

\* Mutant: a heartbeat is not returned on; it goes on to the loop as any
\* message that is not a certificate_update does.
Entry_NoHeartbeatReturn(m) ==
    CASE m.message_type = "certificate_update" /\ m.has_domains -> "loop"
      [] m.message_type = "certificate_update" -> "KeyError"
      [] OTHER -> "UnboundLocalError"

\* line 119-126: what binds all_domains, or the exception raised instead
Entry(m) ==
    CASE m.message_type = "heartbeat" -> "return"
      [] m.message_type = "certificate_update" /\ m.has_domains -> "loop"
      [] m.message_type = "certificate_update" -> "KeyError"
      [] OTHER -> "UnboundLocalError"

\* The whole of one invocation print_callback(m, context), from the state st.
Run(st, m, now) ==
    CASE Entry(m) = "return" -> st
      [] Entry(m) = "loop" -> Loop(st, m, 1, now)
      [] OTHER -> [st EXCEPT !.outcome = Entry(m)]

\* datetime.utcnow(): the process's run and the arrival it is handling
Now == << restarts, delivered + 1 >>

Start(fail) ==
    [db |-> db, stdout |-> stdout, debuglog |-> debuglog, calls |-> storeCalls,
     outcome |-> "returned", found |-> 0, nstore |-> 0, fail |-> fail]

\* ------------------------------------------------------------------ Init
InitProcess ==
    /\ ConfFile \in ConfFiles
    /\ G = << >>
    /\ pc = "ConfAnalysis"
    /\ db = << >>
    /\ tableExists = FALSE
    /\ sqlOpen = FALSE
    /\ stdout = << >>
    /\ debuglog = EmptyBag
    /\ errlog = << >>
    /\ storeCalls = {}
    /\ message = NoMessage
    /\ outcome = "none"
    /\ delivered = 0
    /\ restarts = 0
    /\ faults = 0

InitThreads(T) ==
    /\ wpc = [w \in T |-> "idle"]
    /\ wmsg = [w \in T |-> NoMessage]
    /\ wi = [w \in T |-> 0]

\* The feed client calls print_callback from its one receive loop.
Init == InitProcess /\ InitThreads({})

\* The feed client dispatches print_callback on two threads.
InitConc == InitProcess /\ InitThreads({1, 2})

\* ------------------------------------------------------------------ main
\* The bare except of main (line 202-204) ends main after any exception.
MainExcept ==
    /\ errlog' = Append(errlog, "Main error")
    /\ pc' = "done"

\* line 63-82: binds the globals in order until ConfParser or an attribute
\* read raises; the exception is logged and ConfAnalysis returns.
ConfAnalysis ==
    /\ pc = "ConfAnalysis"
    /\ G' = [n \in {GlobalOrder[i] : i \in 1..ConfParser(ConfFile)} |-> ConfValue(ConfFile, n)]
    /\ errlog' = IF ConfParser(ConfFile) < NGlobals
                 THEN Append(errlog, "ConfParser Error") ELSE errlog
    /\ pc' = "VerifyPath"
    /\ UNCHANGED << ConfFile, db, tableExists, sqlOpen, stdout, debuglog, storeCalls,
                    message, outcome, delivered, restarts, faults, workerVars >>

\* line 166-169
VerifyPath ==
    /\ pc = "VerifyPath"
    /\ IF Bound("DBFile") /\ Bound("LogFile")
       THEN pc' = "Database" /\ errlog' = errlog
       ELSE MainExcept
    /\ UNCHANGED << ConfFile, G, db, tableExists, sqlOpen, stdout, debuglog, storeCalls,
                    message, outcome, delivered, restarts, faults, workerVars >>

\* line 171-172
Database ==
    /\ pc = "Database"
    /\ IF Bound("DBFile") /\ Bound("TABLEname")
       THEN /\ sqlOpen' = TRUE
            /\ db' = SQLiteCreateTable(tableExists, db)
            /\ tableExists' = TRUE
            /\ pc' = "Logging"
            /\ errlog' = errlog
       ELSE MainExcept /\ UNCHANGED << sqlOpen, db, tableExists >>
    /\ UNCHANGED << ConfFile, G, stdout, debuglog, storeCalls,
                    message, outcome, delivered, restarts, faults, workerVars >>

\* line 175-191: sys.exit(1) raises SystemExit, which the bare except catches
Logging ==
    /\ pc = "Logging"
    /\ IF ~(Bound("LogLevel") /\ Bound("LogType"))
       THEN MainExcept
       ELSE IF G["LogType"] \in {"file", "syslog"}
            THEN pc' = "Info" /\ errlog' = errlog
            ELSE /\ errlog' = errlog \o << "Unsupported log type", "Main error" >>
                 /\ pc' = "done"
    /\ UNCHANGED << ConfFile, G, db, tableExists, sqlOpen, stdout, debuglog, storeCalls,
                    message, outcome, delivered, restarts, faults, workerVars >>

\* line 194-195
Info ==
    /\ pc = "Info"
    /\ IF Bound("SearchKeywords") /\ Bound("DetectionThreshold")
       THEN pc' = "Listen" /\ errlog' = errlog
       ELSE MainExcept
    /\ UNCHANGED << ConfFile, G, db, tableExists, sqlOpen, stdout, debuglog, storeCalls,
                    message, outcome, delivered, restarts, faults, workerVars >>

\* Mutant: listen_for_events is called without the proxy arguments.
Listen_NoProxy ==
    /\ pc = "Listen"
    /\ IF Bound("ACTServer")
       THEN pc' = "listening" /\ errlog' = errlog
       ELSE MainExcept
    /\ UNCHANGED << ConfFile, G, db, tableExists, sqlOpen, stdout, debuglog, storeCalls,
                    message, outcome, delivered, restarts, faults, workerVars >>

\* line 196-197: the arguments are read, then listen_for_events is entered
Listen ==
    /\ pc = "Listen"
    /\ IF /\ Bound("ACTServer") /\ Bound("Proxy_Host") /\ Bound("Proxy_Port")
          /\ Bound("Proxy_Username") /\ Bound("Proxy_Password")
       THEN pc' = "listening" /\ errlog' = errlog
       ELSE MainExcept
    /\ UNCHANGED << ConfFile, G, db, tableExists, sqlOpen, stdout, debuglog, storeCalls,
                    message, outcome, delivered, restarts, faults, workerVars >>

\* listen_for_events returns (it ends on KeyboardInterrupt); line 198 then calls
\* print_callback() without arguments: a TypeError, caught at line 202, so that
\* line 200 is not reached.
ListenReturns ==
    /\ pc = "listening"
    /\ \A w \in Threads : wpc[w] = "idle"
    /\ MainExcept
    /\ UNCHANGED << ConfFile, G, db, tableExists, sqlOpen, stdout, debuglog, storeCalls,
                    message, outcome, delivered, restarts, faults, workerVars >>

\* The process ends and is started again on the same files.
Restart ==
    /\ pc = "done"
    /\ restarts < MaxRestarts
    /\ restarts' = restarts + 1
    /\ pc' = "ConfAnalysis"
    /\ G' = << >>
    /\ sqlOpen' = FALSE
    /\ message' = NoMessage
    /\ outcome' = "none"
    /\ errlog' = << >>
    /\ UNCHANGED << ConfFile, db, tableExists, stdout, debuglog, storeCalls,
                    delivered, faults, workerVars >>

\* -------------------------------------------- print_callback, one invocation
\* The feed client calls print_callback(m, context); an exception leaving it
\* is swallowed by the client, which goes on delivering.
Callback(m, fail) ==
    /\ pc = "listening"
    /\ Threads = {}
    /\ delivered < MaxEvents
    /\ LET end == Run(Start(fail), m, Now) IN
       /\ db' = end.db
       /\ stdout' = end.stdout
       /\ debuglog' = end.debuglog
       /\ storeCalls' = end.calls
       /\ outcome' = end.outcome
       /\ faults' = IF end.outcome = "StoreError" THEN faults + 1 ELSE faults
    /\ message' = m
    /\ delivered' = delivered + 1
    /\ UNCHANGED << mainVars, errlog, workerVars >>

print_callback == \E m \in Messages : Callback(m, 0)

\* An invocation during which a store call fails: the sqlite3 error is raised
\* out of SQLiteVerifyEntry or SQLiteInsert.
print_callback_fault ==
    \E m \in FaultMessages : \E f \in 1..(2 * Len(m.all_domains)) :
        /\ pc = "listening"
        /\ delivered < MaxEvents
        /\ faults < MaxFaults
        /\ Run(Start(f), m, Now).outcome = "StoreError"
        /\ Callback(m, f)

\* ------------------------------- print_callback, thread by thread, step by step
Advance(w) ==
    /\ wi' = [wi EXCEPT ![w] = @ + 1]
    /\ wpc' = [wpc EXCEPT ![w] = "loop"]
    /\ wmsg' = wmsg

\* line 119-123
TEnter(w, m) ==
    /\ pc = "listening"
    /\ wpc[w] = "idle"
    /\ delivered < MaxConcEvents
    /\ delivered' = delivered + 1
    /\ message' = m
    /\ IF Entry(m) = "loop"
       THEN /\ wpc' = [wpc EXCEPT ![w] = "loop"]
            /\ wmsg' = [wmsg EXCEPT ![w] = m]
            /\ wi' = [wi EXCEPT ![w] = 1]
            /\ outcome' = outcome
       ELSE /\ outcome' = IF Entry(m) = "return" THEN "returned" ELSE Entry(m)
            /\ UNCHANGED workerVars
    /\ UNCHANGED << mainVars, db, stdout, debuglog, errlog, storeCalls, faults >>

\* line 126-139, 155-157
TLoop(w) ==
    /\ pc = "listening"
    /\ wpc[w] = "loop"
    /\ IF wi[w] > Len(wmsg[w].all_domains)
       THEN /\ wpc' = [wpc EXCEPT ![w] = "idle"]
            /\ outcome' = "returned"
            /\ UNCHANGED << wmsg, wi, debuglog >>
       ELSE LET host == wmsg[w].all_domains[wi[w]] IN
            /\ outcome' = outcome
            /\ IF Classify(host) = "full"
               THEN /\ wpc' = [wpc EXCEPT ![w] = "verify"]
                    /\ UNCHANGED << wmsg, wi, debuglog >>
               ELSE /\ debuglog' = HandleHost(Start(0), wmsg[w], host, Now).debuglog
                    /\ Advance(w)
    /\ UNCHANGED << mainVars, db, stdout, errlog, storeCalls, message, delivered, faults >>

\* line 150
TVerify(w) ==
    /\ pc = "listening"
    /\ wpc[w] = "verify"
    /\ LET looked == Lookup(Start(0), wmsg[w].all_domains[wi[w]]) IN
       /\ storeCalls' = looked.calls
       /\ IF looked.found = 0
          THEN wpc' = [wpc EXCEPT ![w] = "insert"] /\ UNCHANGED << wmsg, wi >>
          ELSE Advance(w)
    /\ UNCHANGED << mainVars, db, stdout, debuglog, errlog, message, outcome, delivered, faults >>

\* line 151
TInsert(w) ==
    /\ pc = "listening"
    /\ wpc[w] = "insert"
    /\ LET ins == Insert(Start(0), wmsg[w], wmsg[w].all_domains[wi[w]], Now) IN
       /\ db' = ins.db
       /\ storeCalls' = ins.calls
    /\ wpc' = [wpc EXCEPT ![w] = "write"]
    /\ UNCHANGED << mainVars, stdout, debuglog, errlog, message, outcome, delivered, faults, wmsg, wi >>

\* line 152-153
TWrite(w) ==
    /\ pc = "listening"
    /\ wpc[w] = "write"
    /\ stdout' = Write(Start(0), wmsg[w], wmsg[w].all_domains[wi[w]]).stdout
    /\ Advance(w)
    /\ UNCHANGED << mainVars, db, debuglog, errlog, storeCalls, message, outcome, delivered, faults >>

Enter == \E w \in Threads : \E m \in ConcMessages : TEnter(w, m)
LoopStep == \E w \in Threads : TLoop(w)
VerifyStep == \E w \in Threads : TVerify(w)
InsertStep == \E w \in Threads : TInsert(w)
WriteStep == \E w \in Threads : TWrite(w)

\* ------------------------------------------------------------ specifications
Main ==
    \/ ConfAnalysis
    \/ VerifyPath
    \/ Database
    \/ Logging
    \/ Info
    \/ Listen
    \/ ListenReturns
    \/ Restart

Next == Main \/ print_callback

NextFault == Main \/ print_callback \/ print_callback_fault

NextConc == Main \/ Enter \/ LoopStep \/ VerifyStep \/ InsertStep \/ WriteStep

Spec == Init /\ [][Next]_vars

SpecFault == Init /\ [][NextFault]_vars

SpecConc == InitConc /\ [][NextConc]_vars

\* ============================================================== properties
NRecords(rows, D) == Cardinality({i \in 1..Len(rows) : rows[i].domain = D})
NLines(out, D) == Cardinality({i \in 1..Len(out) : out[i].host = D})
NDebug(log, D) == BagCardinality([l \in {x \in DOMAIN log : x.host = D} |-> log[l]])
Occurrences(seq, x) == Cardinality({i \in 1..Len(seq) : seq[i] = x})

IsUpdate(m) == m.message_type = "certificate_update" /\ m.has_domains
Configured == Bound("SearchKeywords") /\ Bound("BlacklistKeywords") /\ Bound("DetectionThreshold")
MatchCount(D) == Cardinality({t \in Range(D) : t \in G["SearchKeywords"]})
MatchesBlacklist(D) == \E i \in 1..Len(D) : D[i] \in G["BlacklistKeywords"]
Handled == delivered' = delivered + 1

\* C1: the store never holds two DetectionRecords for one domain (checked under
\* threaded dispatch, whose runs include the events handled one after another).
C1_OneRecordPerDomain == \A D \in Hosts : NRecords(db, D) <= 1

C1_Witness ==
    /\ delivered = 2
    /\ \A w \in Threads : wpc[w] = "idle"
    /\ \E D \in Hosts :
        /\ \A w \in Threads : IsUpdate(wmsg[w]) /\ wmsg[w].all_domains = << D >>
        /\ << "insert", D >> \in storeCalls
        /\ NRecords(db, D) = 1

\* C2: under threaded dispatch the lookup and the insert act as one atomic
\* step: every domain ends with at most one record and at most one stdout line.
C2_AtomicCheckAndInsert ==
    \A D \in Hosts : NRecords(db, D) <= 1 /\ NLines(stdout, D) <= 1

\* C3: handling a certificate update that names an unrecorded domain D with
\* match count >= DetectionThreshold and no blacklist hit leaves exactly one
\* record for D and writes exactly one stdout line for D.
C3_FirstFullDetection ==
    [][Handled /\ IsUpdate(message') =>
        \A D \in Range(message'.all_domains) :
            (/\ NRecords(db, D) = 0
             /\ MatchCount(D) >= G["DetectionThreshold"]
             /\ ~MatchesBlacklist(D))
            => /\ NRecords(db', D) = 1
               /\ NLines(stdout', D) = NLines(stdout, D) + 1]_vars

C3_Witness ==
    /\ pc = "listening"
    /\ delivered = 1
    /\ IsUpdate(message)
    /\ \E D \in Range(message.all_domains) :
        /\ MatchCount(D) >= G["DetectionThreshold"]
        /\ ~MatchesBlacklist(D)
        /\ NRecords(db, D) = 1
        /\ NLines(stdout, D) = 1

\* C4: once a domain is recorded, no later event (the same one or another
\* certificate naming the domain) adds a record or a stdout line for it.
C4_IdempotentRedelivery ==
    [][\A D \in Hosts :
        NRecords(db, D) >= 1 =>
            /\ NRecords(db', D) = NRecords(db, D)
            /\ NLines(stdout', D) = NLines(stdout, D)]_vars

C4_Witness ==
    /\ pc = "listening"
    /\ delivered = 2
    /\ IsUpdate(message)
    /\ \E D \in Range(message.all_domains) : \E i \in 1..Len(db) :
        /\ db[i].domain = D
        /\ db[i].firstseen = << 0, 1 >>
        /\ db[i].fingerprint # message.leaf_cert.fingerprint
        /\ NLines(stdout, D) = 1

\* C5: a hostname with 0 < match count < DetectionThreshold is never looked up
\* or inserted and never written to stdout; each delivery of it adds one
\* diagnostic-log record per occurrence.
C5_PartialOnlyDiagnostic ==
    /\ [](Configured =>
            \A h \in Hosts :
                (MatchCount(h) > 0 /\ MatchCount(h) < G["DetectionThreshold"]) =>
                    /\ << "verify", h >> \notin storeCalls
                    /\ << "insert", h >> \notin storeCalls
                    /\ NRecords(db, h) = 0
                    /\ NLines(stdout, h) = 0)
    /\ [][Handled /\ IsUpdate(message') =>
            \A h \in Hosts :
                (MatchCount(h) > 0 /\ MatchCount(h) < G["DetectionThreshold"]) =>
                    NDebug(debuglog', h) =
                        NDebug(debuglog, h) + Occurrences(message'.all_domains, h)]_vars

C5_Witness ==
    /\ pc = "listening"
    /\ G["BlacklistKeywords"] = {}
    /\ \E h \in Hosts :
        /\ MatchCount(h) > 0 /\ MatchCount(h) < G["DetectionThreshold"]
        /\ NDebug(debuglog, h) = 2
        /\ delivered = 2

\* C6: a hostname that matches the non-empty blacklist and has match count >=
\* DetectionThreshold gets no record, no stdout line and no diagnostic record.
C6_BlacklistedSuppressed ==
    Configured =>
        \A h \in Hosts :
            (/\ G["BlacklistKeywords"] # {}
             /\ MatchesBlacklist(h)
             /\ MatchCount(h) >= G["DetectionThreshold"])
            => /\ NRecords(db, h) = 0
               /\ NLines(stdout, h) = 0
               /\ NDebug(debuglog, h) = 0

C6_Witness ==
    /\ pc = "listening"
    /\ outcome = "returned"
    /\ IsUpdate(message)
    /\ G["BlacklistKeywords"] # {}
    /\ \E h \in Range(message.all_domains) :
        MatchesBlacklist(h) /\ MatchCount(h) >= G["DetectionThreshold"]

\* C7: a failing store lookup or insert is logged and does not leave
\* print_callback as an exception.
C7_StoreFailureContained ==
    /\ outcome # "StoreError"
    /\ faults > 0 => "Store error" \in Range(errlog)

\* C8: an event of unexpected shape (a message_type other than heartbeat and
\* certificate_update, or a certificate_update without the domain list) makes
\* print_callback return without raising.
C8_UnexpectedShapeIgnored ==
    (\/ message.message_type \notin {"none", "heartbeat", "certificate_update"}
     \/ (message.message_type = "certificate_update" /\ ~message.has_domains))
    => outcome = "returned"

\* C9: a restart on the same store keeps every row, and a domain recorded by
\* an earlier run of the process gets no further record and no further stdout
\* line when its event is delivered again.
C9_DedupSurvivesRestart ==
    [][/\ pc # "listening" => db' = db
       /\ \A D \in Hosts :
            (\E i \in 1..Len(db) : db[i].domain = D /\ db[i].firstseen[1] < restarts) =>
                /\ NRecords(db', D) = 1
                /\ NLines(stdout', D) = NLines(stdout, D)]_vars

C9_Witness ==
    /\ pc = "listening"
    /\ restarts = 1
    /\ IsUpdate(message)
    /\ \E D \in Range(message.all_domains) : \E i \in 1..Len(db) :
        /\ db[i].domain = D
        /\ db[i].firstseen[1] = 0
        /\ NRecords(db, D) = 1
        /\ NLines(stdout, D) = 1

\* C10: in a run of main in which the configuration failed to load or the log
\* type is unsupported, listen_for_events is never entered and print_callback
\* handles no event.
C10_ConfigErrorIsFatal ==
    ("ConfParser Error" \in Range(errlog) \/ "Unsupported log type" \in Range(errlog))
    => /\ pc # "listening"
       /\ message = NoMessage
       /\ outcome = "none"
       /\ \A w \in Threads : wpc[w] = "idle"

C10_Witness ==
    /\ ConfFile.failAt = NGlobals - 1
    /\ pc = "done"
    /\ errlog = << "ConfParser Error", "Main error" >>

\* C11: a detection threshold <= 0 is rejected when the configuration is
\* loaded, so print_callback never runs with a non-positive threshold, and no
\* hostname without a search-pattern match is stored or written to stdout.
C11_NonPositiveThresholdRejected ==
    /\ pc = "listening" => G["DetectionThreshold"] > 0
    /\ ConfFile.DetectionThreshold <= 0 => delivered = 0
    /\ \A i \in 1..Len(db) : \E t \in Range(db[i].domain) : t \in SearchPattern
    /\ \A i \in 1..Len(stdout) : \E t \in Range(stdout[i].host) : t \in SearchPattern

C11_Witness ==
    /\ ConfFile.DetectionThreshold <= 0
    /\ pc = "done"
    /\ errlog = << "ConfParser Error", "Main error" >>

\* The scenario of C12: threshold 2, no blacklist, one event naming a host in
\* which "paypal" occurs twice (H_rep) and a host without any match (H_none).
C12_Scenario ==
    /\ pc = "listening"
    /\ G["DetectionThreshold"] = 2
    /\ G["BlacklistKeywords"] = {}
    /\ delivered = 1
    /\ outcome = "returned"
    /\ IsUpdate(message)
    /\ message.all_domains = << H_rep, H_none >>

C12_SecondHostSilent ==
    /\ FindNb(H_none) = 0
    /\ NRecords(db, H_none) = 0
    /\ NLines(stdout, H_none) = 0
    /\ NDebug(debuglog, H_none) = 0

\* C12 as stated: the host with the repeated keyword scores 2 and is a full
\* detection (one record, one stdout line); the other host scores 0, no output.
C12_RepeatedKeywordIsFull ==
    C12_Scenario =>
        /\ FindNb(H_rep) = 2
        /\ NRecords(db, H_rep) = 1
        /\ NLines(stdout, H_rep) = 1
        /\ C12_SecondHostSilent

\* C12 as amended: the host with the repeated keyword scores 1 and is a
\* partial detection (one diagnostic record, no row, no stdout line); the
\* other host scores 0, no output.
C12_RepeatedKeywordIsPartial ==
    C12_Scenario =>
        /\ FindNb(H_rep) = 1
        /\ NRecords(db, H_rep) = 0
        /\ NLines(stdout, H_rep) = 0
        /\ NDebug(debuglog, H_rep) = 1
        /\ C12_SecondHostSilent

C12_Witness == C12_Scenario /\ NDebug(debuglog, H_rep) = 1

\* C13: whenever the feed listener returns or is interrupted in main, the
\* store has been closed (SQL.SQLiteClose was executed) when main ends.
C13_StoreClosedOnShutdown ==
    [][(pc = "listening" /\ pc' = "done") => ~sqlOpen']_vars

\* C14: a record is immutable once inserted: no step changes a field of an
\* existing row or removes it, and the only change to the store is that rows
\* are added for domains that had none (one row per such domain).
C14_RecordsImmutable ==
    [][/\ Len(db') >= Len(db)
       /\ \A i \in 1..Len(db) : db'[i] = db[i]
       /\ \A j \in (Len(db) + 1)..Len(db') :
             /\ NRecords(db, db'[j].domain) = 0
             /\ NRecords(db', db'[j].domain) = 1]_vars

\* A recorded domain was named again by an event carrying another certificate.
C14_Witness ==
    /\ delivered = 2
    /\ outcome = "returned"
    /\ IsUpdate(message)
    /\ \E i \in 1..Len(db) :
          /\ \E k \in 1..Len(message.all_domains) : message.all_domains[k] = db[i].domain
          /\ db[i].firstseen[2] = 1
          /\ db[i].fingerprint # message.leaf_cert.fingerprint

\* C15: a heartbeat causes no classification work and no side effects:
\* print_callback returns, leaving the store, the stdout lines and the
\* diagnostic log unchanged, and calls the store for nothing.
C15_HeartbeatNoSideEffects ==
    [][(Handled /\ message'.message_type = "heartbeat") =>
          /\ outcome' = "returned"
          /\ db' = db
          /\ stdout' = stdout
          /\ debuglog' = debuglog
          /\ storeCalls' = storeCalls]_vars

\* A heartbeat was handled after an event that left a row and a line.
C15_Witness ==
    /\ delivered = 2
    /\ message.message_type = "heartbeat"
    /\ outcome = "returned"
    /\ Len(db) > 0
    /\ Len(stdout) > 0

\* C16: the blacklist is asymmetric: a hostname that matches the blacklist
\* with 0 < match count < DetectionThreshold is still a partial detection (each
\* occurrence adds one diagnostic-log record), while one with match count >=
\* DetectionThreshold adds nothing to the diagnostic log, the store or stdout.
C16_BlacklistAsymmetry ==
    [][(Handled /\ IsUpdate(message')) =>
          \A h \in Hosts :
              MatchesBlacklist(h) =>
                  /\ (MatchCount(h) > 0 /\ MatchCount(h) < G["DetectionThreshold"]) =>
                        NDebug(debuglog', h) =
                            NDebug(debuglog, h) + Occurrences(message'.all_domains, h)
                  /\ MatchCount(h) >= G["DetectionThreshold"] =>
                        /\ NDebug(debuglog', h) = NDebug(debuglog, h)
                        /\ NRecords(db', h) = 0
                        /\ NLines(stdout', h) = 0]_vars

\* One event named a blacklisted partial host and a blacklisted full host.
C16_Witness ==
    /\ pc = "listening"
    /\ delivered = 1
    /\ \E h, g \in Hosts :
          /\ MatchesBlacklist(h) /\ MatchesBlacklist(g)
          /\ MatchCount(h) > 0 /\ MatchCount(h) < G["DetectionThreshold"]
          /\ MatchCount(g) >= G["DetectionThreshold"]
          /\ message.all_domains = << g, h >>
          /\ NDebug(debuglog, h) = 1
          /\ NDebug(debuglog, g) = 0

\* The hostnames over which FindNb is compared with the count of distinct
\* matched strings: every token sequence of at most MaxTokens tokens.
MaxTokens == 3
Tokens == {"paypal", "bank", "ok", "example"}
TokenSeqs == UNION {[1..n -> Tokens] : n \in 1..MaxTokens}

\* C17: FindNb is the number of distinct matched strings of the hostname:
\* repeated occurrences of one matched string count once, so FindNb never
\* exceeds the number of distinct strings the search pattern matches in it,
\* and it is this count that is compared with the threshold.
C17_FindNbCountsDistinct ==
    /\ (pc = "listening" /\ delivered = 0) =>
          \A h \in TokenSeqs :
              /\ FindNb(h) = Cardinality({t \in G["SearchKeywords"] : \E i \in 1..Len(h) : h[i] = t})
              /\ FindNb(h) <= Len(findall(G["SearchKeywords"], h))
              /\ FindNb(h) <= Cardinality(G["SearchKeywords"])
    /\ pc = "listening" =>
          \A h \in Hosts :
              /\ FindNb(h) = MatchCount(h)
              /\ NRecords(db, h) > 0 => MatchCount(h) >= G["DetectionThreshold"]
              /\ NDebug(debuglog, h) > 0 => MatchCount(h) < G["DetectionThreshold"]

\* A hostname in which one string is matched twice was handled below the
\* threshold 2.
C17_Witness ==
    /\ pc = "listening"
    /\ G["DetectionThreshold"] = 2
    /\ \E h \in Hosts :
          /\ Len(findall(G["SearchKeywords"], h)) = 2
          /\ FindNb(h) = 1
          /\ NDebug(debuglog, h) > 0

\* The event m with its hostnames in the opposite order, and with only its
\* k-th hostname.
Reversed(m) ==
    [m EXCEPT !.all_domains = [i \in 1..Len(@) |-> @[Len(@) + 1 - i]]]
Only(m, k) == [m EXCEPT !.all_domains = << @[k] >>]

\* One invocation per hostname of m, in order, each starting from what the
\* one before left.
RECURSIVE OneByOne(_, _, _, _)
OneByOne(st, m, k, now) ==
    IF k > Len(m.all_domains) THEN st
    ELSE OneByOne(Run(st, Only(m, k), now), m, k + 1, now)

\* C18: the hostnames of one certificate_update are handled independently:
\* the event leaves what its hostnames would leave handled one by one (none
\* stops or alters the handling of those after it), and the same rows, stdout
\* lines and diagnostic records as the event with its hostnames reversed.
C18_HostnamesIndependent ==
    [][(Handled /\ IsUpdate(message')) =>
          LET m == message'
              each == OneByOne(Start(0), m, 1, Now)
              rev == Run(Start(0), Reversed(m), Now)
          IN /\ db' = each.db
             /\ stdout' = each.stdout
             /\ debuglog' = each.debuglog
             /\ Range(db') = Range(rev.db)
             /\ Range(stdout') = Range(rev.stdout)
             /\ Len(db') = Len(rev.db)
             /\ Len(stdout') = Len(rev.stdout)
             /\ debuglog' = rev.debuglog]_vars

\* A blacklist-suppressed hostname came first in an event and the full
\* detection after it was recorded and written.
C18_Witness ==
    /\ pc = "listening"
    /\ delivered = 1
    /\ IsUpdate(message)
    /\ Len(message.all_domains) = 2
    /\ MatchesBlacklist(message.all_domains[1])
    /\ MatchCount(message.all_domains[1]) >= G["DetectionThreshold"]
    /\ NRecords(db, message.all_domains[2]) = 1
    /\ NLines(stdout, message.all_domains[2]) = 1

\* C19: every stdout line is backed by a record: each domain that has a line
\* on stdout has a row in the store, the line being written only after the
\* insert of the same pass, and not at all when that insert raises.
C19_LineBackedByRecord ==
    \A D \in Hosts : NLines(stdout, D) >= 1 => NRecords(db, D) >= 1

\* The insert for a domain raised, and another domain has its row and line.
C19_Witness ==
    /\ outcome = "StoreError"
    /\ \E D \in Hosts :
          /\ << "insert", D >> \in storeCalls
          /\ NRecords(db, D) = 0
          /\ NLines(stdout, D) = 0
    /\ \E D \in Hosts : NLines(stdout, D) = 1 /\ NRecords(db, D) = 1

\* C20: for every full detection the issuer stored in the row is the issuer
\* written on the stdout line of that detection, and the stored fingerprint
\* and start time equal those on the line.
C20_RowMatchesLine ==
    \A i \in 1..Len(db) : \A j \in 1..Len(stdout) :
        stdout[j].host = db[i].domain =>
            /\ db[i].issuer = stdout[j].issuer
            /\ db[i].fingerprint = stdout[j].fingerprint
            /\ db[i].startime = stdout[j].startime

====
